---- MODULE Spec2Model ----
(***************************************************************************)
(* The issue-manager module (amplifier_module_issue_manager): the          *)
(* in-memory IssueIndex, the scheduling algorithms over it, the JSONL      *)
(* Storage and the IssueManager facade that validates, mutates the index,  *)
(* rewrites the persisted collection and appends an event.                 *)
(*                                                                         *)
(* Python's Optional[T] is modelled as a sequence: <<>> is None and <<x>>  *)
(* is the value x.  A dict that keeps insertion order (index.issues,       *)
(* index.dependencies) is a sequence of its values; a dict whose order is  *)
(* never read (blockers, dependents, metadata) is a function.  uuid4() is  *)
(* a fresh ordinal; datetime.now() is the variable clock.                  *)
(***************************************************************************)
EXTENDS Integers, Sequences, FiniteSets, TLC

\* ---------------------------------------------------------------- bounds
\* Issues that create_issue may make in one run.
MaxIssues == 3
\* Ticks of datetime.now(): every successful mutating call takes one.
MaxClock == 6
\* Calls that end in an error in one run.
MaxRejected == 1
\* The same two limits for the runs that exercise the fields of an issue.
MaxFieldIssues == 2
MaxFieldClock == 5
\* Edges the index holds at once in the runs that call the index directly.
MaxEdges == 3

\* ------------------------------------------------------------- constants
None == <<>>
Some(x) == <<x>>

Actor == "system"
StatusEnum == {"open", "in_progress", "blocked", "closed"}
IssueTypeEnum == {"bug", "feature", "task", "epic", "chore"}
DepTypeEnum == {"blocks", "related", "parent-child", "discovered-from"}
MinPriority == 0
MaxPriority == 4

\* Ids a caller may pass: an id is absent until create_issue has issued it.
IdInputs == 1..MaxIssues

\* shared: the ids of the issues whose metadata attribute is the one dict
\* object a caller passes as metadata to several create_issue calls
\* (create_issue stores the object it is given, not a copy).
VARIABLES index, store_issues, store_deps, events, clock, last, rejections, shared

\* What lies outside this IssueManager instance:
\* other: the index of a second IssueManager made on the same data_dir, None
\*     until it is made;
\* worker: whether the caller has become the worker that only closes the
\*     first ready issue;
\* io: one call of Storage._read_jsonl, _write_jsonl or _append_jsonl on one
\*     file, attempt by attempt.
VARIABLES other, worker, io

outside == <<other, worker, io>>

vars == <<index, store_issues, store_deps, events, clock, last, rejections, shared,
          other, worker, io>>

\* ------------------------------------------------------------ IssueIndex
EmptyMap == [k \in {} |-> {}]

IssueIndex == [issues |-> <<>>, dependencies |-> <<>>,
               blockers |-> EmptyMap, dependents |-> EmptyMap]

IssueIds(idx) == {idx.issues[i].id : i \in DOMAIN idx.issues}

\* dict[key] = value on an insertion-ordered dict: overwrite in place, or append.
add_issue(idx, issue) ==
    [idx EXCEPT !.issues =
        IF issue.id \in IssueIds(idx)
        THEN [i \in DOMAIN @ |-> IF @[i].id = issue.id THEN issue ELSE @[i]]
        ELSE Append(@, issue)]

get_issue(idx, issue_id) ==
    IF issue_id \in IssueIds(idx)
    THEN Some(idx.issues[CHOOSE i \in DOMAIN idx.issues : idx.issues[i].id = issue_id])
    ELSE None

\* dict.get(issue_id, set()).copy()
\* list_issues: each filter is None when not passed.
list_issues(idx, status, priority, issue_type, assignee) ==
    LET Matches(i) ==
            /\ status # None => i.status = status[1]
            /\ priority # None => i.priority = priority[1]
            /\ issue_type # None => i.issue_type = issue_type[1]
            /\ assignee # None => i.assignee = assignee
    IN SelectSeq(idx.issues, Matches)

get_blockers(idx, issue_id) ==
    IF issue_id \in DOMAIN idx.blockers THEN idx.blockers[issue_id] ELSE {}

get_dependents(idx, issue_id) ==
    IF issue_id \in DOMAIN idx.dependents THEN idx.dependents[issue_id] ELSE {}

get_all_dependencies(idx) == idx.dependencies

DepKeys(idx) == {<<idx.dependencies[i].from_id, idx.dependencies[i].to_id>> :
                    i \in DOMAIN idx.dependencies}

\* map[k].add(v), creating the set when k is a new key.
MapAdd(map, k, v) ==
    [x \in DOMAIN map \cup {k} |->
        IF x = k THEN (IF k \in DOMAIN map THEN map[k] ELSE {}) \cup {v}
        ELSE map[x]]

\* Mutant: the entry stays in the map when its set becomes empty.
MapDiscard_KeepsEmpty(map, k, v) ==
    IF k \notin DOMAIN map THEN map ELSE [map EXCEPT ![k] = @ \ {v}]

\* map[k].discard(v) when k is a key, deleting the entry once its set is empty.
MapDiscard(map, k, v) ==
    IF k \notin DOMAIN map THEN map
    ELSE IF map[k] \ {v} = {}
         THEN [x \in DOMAIN map \ {k} |-> map[x]]
         ELSE [map EXCEPT ![k] = @ \ {v}]

\* Mutant: the edges are kept in a list, so a repeated pair is added again.
IndexAddDependency_Appends(idx, dep) ==
    [idx EXCEPT
        !.dependencies = Append(@, dep),
        !.blockers = MapAdd(@, dep.from_id, dep.to_id),
        !.dependents = MapAdd(@, dep.to_id, dep.from_id)]

IndexAddDependency(idx, dep) ==
    [idx EXCEPT
        !.dependencies =
            IF <<dep.from_id, dep.to_id>> \in DepKeys(idx)
            THEN [i \in DOMAIN @ |->
                    IF @[i].from_id = dep.from_id /\ @[i].to_id = dep.to_id
                    THEN dep ELSE @[i]]
            ELSE Append(@, dep),
        !.blockers = MapAdd(@, dep.from_id, dep.to_id),
        !.dependents = MapAdd(@, dep.to_id, dep.from_id)]

IndexRemoveDependency(idx, from_id, to_id) ==
    LET Keep(d) == ~(d.from_id = from_id /\ d.to_id = to_id)
    IN [idx EXCEPT
            !.dependencies = SelectSeq(@, Keep),
            !.blockers = MapDiscard(@, from_id, to_id),
            !.dependents = MapDiscard(@, to_id, from_id)]

\* ------------------------------------------------------------ algorithms
\* Mutant: a blocker counts as open whatever its status.
IsOpenBlocker_IgnoresStatus(idx, blocker_id) == get_issue(idx, blocker_id) # None

\* The blocker resolves to an issue of the index that is not closed.
IsOpenBlocker(idx, blocker_id) ==
    /\ get_issue(idx, blocker_id) # None
    /\ get_issue(idx, blocker_id)[1].status # "closed"

\* list.sort(key=priority): a stable insertion sort, lowest priority value first.
RECURSIVE InsertByPriority(_, _)
InsertByPriority(sorted, issue) ==
    IF sorted = <<>> THEN <<issue>>
    ELSE IF sorted[Len(sorted)].priority <= issue.priority
         THEN Append(sorted, issue)
         ELSE Append(InsertByPriority(SubSeq(sorted, 1, Len(sorted) - 1), issue),
                     sorted[Len(sorted)])

\* Mutant: the sort is missing.
SortByPriority_Missing(seq) == seq

RECURSIVE SortByPriority(_)
SortByPriority(seq) ==
    IF seq = <<>> THEN <<>>
    ELSE InsertByPriority(SortByPriority(SubSeq(seq, 1, Len(seq) - 1)), seq[Len(seq)])

\* ready[:limit], Python's slice (a negative limit counts from the end).
SliceTo(seq, limit) ==
    IF limit >= 0
    THEN SubSeq(seq, 1, IF limit < Len(seq) THEN limit ELSE Len(seq))
    ELSE SubSeq(seq, 1, IF Len(seq) + limit > 0 THEN Len(seq) + limit ELSE 0)

\* Mutant: a blocker blocks whatever its status (the closed test is lost).
ReadyCandidates_AnyBlockerBlocks(idx) ==
    LET IsReady(issue) ==
            /\ issue.status \in {"open", "in_progress"}
            /\ get_blockers(idx, issue.id) = {}
    IN SelectSeq(idx.issues, IsReady)

\* Mutant: every issue that is not closed is a candidate, as in get_blocked_issues.
ReadyCandidates_AnyNotClosed(idx) ==
    LET IsReady(issue) ==
            /\ issue.status # "closed"
            /\ ~ \E b \in get_blockers(idx, issue.id) : IsOpenBlocker(idx, b)
    IN SelectSeq(idx.issues, IsReady)

\* The issues the loop appends to ready, in the index's iteration order.
ReadyCandidates(idx) ==
    LET IsReady(issue) ==
            /\ issue.status \in {"open", "in_progress"}
            /\ ~ \E b \in get_blockers(idx, issue.id) : IsOpenBlocker(idx, b)
    IN SelectSeq(idx.issues, IsReady)

\* A limit tested for truth instead of against None: 0 returns everything.
get_ready_issues_TruthyLimit(idx, limit) ==
    IF limit # None /\ limit[1] # 0
    THEN SliceTo(SortByPriority(ReadyCandidates(idx)), limit[1])
    ELSE SortByPriority(ReadyCandidates(idx))

get_ready_issues(idx, limit) ==
    LET ready == SortByPriority(ReadyCandidates(idx))
    IN IF limit # None THEN SliceTo(ready, limit[1]) ELSE ready

\* Mutant: closed blockers are listed too.
OpenBlockers_ListsClosed(idx, issue) ==
    {get_issue(idx, b)[1] : b \in {x \in get_blockers(idx, issue.id) : get_issue(idx, x) # None}}

\* The blockers list of one tuple: the order of a set's iteration is not
\* defined, so the list is modelled as the set of its issues.
OpenBlockers(idx, issue) ==
    {get_issue(idx, b)[1] : b \in {x \in get_blockers(idx, issue.id) : IsOpenBlocker(idx, x)}}

get_blocked_issues(idx) ==
    LET IsBlocked(issue) ==
            /\ issue.status # "closed"
            /\ OpenBlockers(idx, issue) # {}
        blocked == SelectSeq(idx.issues, IsBlocked)
    IN [i \in DOMAIN blocked |-> <<blocked[i], OpenBlockers(idx, blocked[i])>>]

\* nx.DiGraph(): the edge set of the graph, one edge per (from_id, to_id).
GraphEdges(idx) ==
    {<<get_all_dependencies(idx)[i].from_id, get_all_dependencies(idx)[i].to_id>> :
        i \in DOMAIN get_all_dependencies(idx)}

\* The nodes reachable from the set frontier by one or more edges.
RECURSIVE Reachable(_, _, _)
Reachable(edges, frontier, seen) ==
    LET next == {e[2] : e \in {x \in edges : x[1] \in frontier}} \ seen
    IN IF next = {} THEN seen ELSE Reachable(edges, next, seen \cup next)

\* Mutant: only an edge from a node to itself counts as a cycle.
HasCycle_SelfLoopOnly(edges) == \E e \in edges : e[1] = e[2]

\* nx.find_cycle(graph) returns a cycle iff some node reaches itself.
HasCycle(edges) ==
    \E e \in edges : e[1] \in Reachable(edges, {e[1]}, {})

\* Mutant: only the edges of type blocks are put in the graph.
detect_cycle_BlocksOnly(idx, from_id, to_id) ==
    LET deps == get_all_dependencies(idx)
        blocks == {<<deps[i].from_id, deps[i].to_id>> :
                      i \in {j \in DOMAIN deps : deps[j].dep_type = "blocks"}}
    IN HasCycle(blocks \cup {<<from_id, to_id>>})

detect_cycle(idx, from_id, to_id) ==
    HasCycle(GraphEdges(idx) \cup {<<from_id, to_id>>})

\* ---------------------------------------------------------------- models
\* datetime.isoformat() and datetime.fromisoformat(): the text form of a
\* timestamp is a record around the tick it denotes.
isoformat(t) == [iso |-> t]
fromisoformat(text) == text.iso

IssueToDict(issue) ==
    [issue EXCEPT
        !.created_at = isoformat(@),
        !.updated_at = isoformat(@),
        !.closed_at = IF @ # None THEN Some(isoformat(@[1])) ELSE None]

IssueFromDict(data) ==
    [data EXCEPT
        !.created_at = fromisoformat(@),
        !.updated_at = fromisoformat(@),
        !.closed_at = IF @ # None THEN Some(fromisoformat(@[1])) ELSE None]

DependencyToDict(dep) == [dep EXCEPT !.created_at = isoformat(@)]

DependencyFromDict(data) == [data EXCEPT !.created_at = fromisoformat(@)]

\* --------------------------------------------------------------- storage
\* save_issues / save_dependencies: the file's lines, one dict per entity.
save_issues(issues) == [i \in DOMAIN issues |-> IssueToDict(issues[i])]

save_dependencies(deps) == [i \in DOMAIN deps |-> DependencyToDict(deps[i])]

load_issues(file) == [i \in DOMAIN file |-> IssueFromDict(file[i])]

load_dependencies(file) == [i \in DOMAIN file |-> DependencyFromDict(file[i])]

\* ------------------------------------------------------- IssueManager
RECURSIVE LoadIssues(_, _)
LoadIssues(idx, issues) ==
    IF issues = <<>> THEN idx
    ELSE LoadIssues(add_issue(idx, Head(issues)), Tail(issues))

RECURSIVE LoadDependencies(_, _)
LoadDependencies(idx, deps) ==
    IF deps = <<>> THEN idx
    ELSE LoadDependencies(IndexAddDependency(idx, Head(deps)), Tail(deps))

\* IssueManager.__init__ on a storage location: the index a fresh instance holds.
LoadAll(issues_file, deps_file) ==
    LoadDependencies(LoadIssues(IssueIndex, load_issues(issues_file)),
                     load_dependencies(deps_file))

IssueEvent(issue_id, event_type, changes) ==
    [id |-> Len(events) + 1, issue_id |-> issue_id, event_type |-> event_type,
     actor |-> Actor, changes |-> changes, timestamp |-> isoformat(clock)]

\* IssueEvent.from_dict
EventFromDict(data) ==
    [id |-> data.id, issue_id |-> data.issue_id, event_type |-> data.event_type,
     actor |-> data.actor, changes |-> data.changes,
     timestamp |-> fromisoformat(data.timestamp)]

\* storage.load_events: every line of events.jsonl, in file order.
load_events(file) == [i \in DOMAIN file |-> EventFromDict(file[i])]

\* Mutant: the log is returned without the filter on issue_id.
get_issue_events_Unfiltered(issue_id) == load_events(events)

get_issue_events(issue_id) ==
    LET OfIssue(e) == e.issue_id = issue_id
    IN SelectSeq(load_events(events), OfIssue)

\* Mutant: the log file is opened for writing, not for appending.
EmitEvent_Truncates(issue_id, event_type, changes) ==
    events' = <<IssueEvent(issue_id, event_type, changes)>>

\* storage.append_event(event)
EmitEvent(issue_id, event_type, changes) ==
    events' = Append(events, IssueEvent(issue_id, event_type, changes))

\* What the last call did: its name, how it ended, and what it returned
\* (the id of the issue, or the pair of the edge, of a call that succeeded).
Result(op, result, args) == [op |-> op, result |-> result, args |-> args]

\* The call raises ValueError: the kind of error is what its message says.
Raise(op, error) ==
    /\ rejections < MaxRejected
    /\ rejections' = rejections + 1
    /\ last' = Result(op, error, <<>>)
    /\ UNCHANGED <<shared, outside>>

\* ---------------------------------------------------------------- inputs
PriorityInputs == {-1, 0, 2, 5}
IssueTypeInputs == {"task", "widget"}
DepTypeInputs == {"blocks", "related", "depends"}
EmptyMetadata == [k \in {} |-> ""]

\* The keyword arguments of update_issue, each None when not passed.  The
\* calls tried pass one field, or a field together with a later one that is
\* invalid.
NoUpdate == [title |-> None, description |-> None, status |-> None,
             priority |-> None, assignee |-> None, blocking_notes |-> None,
             metadata |-> None]

UpdateInputs ==
    {[NoUpdate EXCEPT !.status = Some(st)] : st \in {"in_progress", "blocked", "done"}}
    \cup {[NoUpdate EXCEPT !.title = Some("t1"), !.status = Some("done")],
          [NoUpdate EXCEPT !.status = Some("closed"), !.priority = Some(5)]}

\* The arguments of create_issue: title, and the defaults of the keywords.
\* kept tells whether metadata is a new dict (FALSE) or the dict object the
\* caller made once, with the content given, and passes in every such call.
CreateDefaults ==
    [title |-> "t0", description |-> "", priority |-> 2, issue_type |-> "task",
     assignee |-> None, parent_id |-> None, discovered_from |-> None,
     metadata |-> None, kept |-> FALSE]

\* The calls that exercise the fields: create_issue with every keyword
\* passed (metadata being the dict object the caller keeps), update_issue with each field alone, with all of them, and with a
\* valid field before an invalid one, close_issue with two reasons.
MetaCreated == [k \in {"k0"} |-> "v0"]
MetaFirst == [k \in {"k"} |-> "v1"]
MetaSecond == [k \in {"k", "k2"} |-> "v2"]

FieldCreateInputs ==
    {CreateDefaults,
     [title |-> "t0", description |-> "d0", priority |-> 1, issue_type |-> "bug",
      assignee |-> Some("alice"), parent_id |-> Some(1),
      discovered_from |-> Some(1), metadata |-> Some(MetaCreated), kept |-> TRUE]}

FieldUpdateInputs ==
    {[NoUpdate EXCEPT !.status = Some(st)] : st \in StatusEnum}
    \cup {[NoUpdate EXCEPT !.title = Some("t1")],
          [NoUpdate EXCEPT !.description = Some("d1")],
          [NoUpdate EXCEPT !.priority = Some(3)],
          [NoUpdate EXCEPT !.assignee = Some("bob")],
          [NoUpdate EXCEPT !.blocking_notes = Some("n1")],
          [NoUpdate EXCEPT !.metadata = Some(MetaFirst)],
          [NoUpdate EXCEPT !.metadata = Some(MetaSecond)],
          [title |-> Some("t2"), description |-> Some("d2"),
           status |-> Some("in_progress"), priority |-> Some(4),
           assignee |-> Some("carol"), blocking_notes |-> Some("n2"),
           metadata |-> Some(MetaFirst)],
          [NoUpdate EXCEPT !.description = Some("d1"), !.priority = Some(9)]}

CloseReasons == {"Completed", "duplicate"}

\* ----------------------------------------------------- manager operations
\* _save_issues / _save_dependencies: the full rewrite of one collection.
SaveIssues(idx) == store_issues' = save_issues(idx.issues)

SaveDependencies(idx) == store_deps' = save_dependencies(get_all_dependencies(idx))

\* The content of the dict object the caller keeps: what the call that made
\* it gave it, and since then what update_issue has merged into it through
\* the issues that hold it.
KeptObject(args) ==
    IF shared = {} THEN args.metadata[1]
    ELSE get_issue(index, CHOOSE id \in shared : TRUE)[1].metadata

\* metadata=metadata or {}: the object passed, or a new dict when it is None
\* or empty.
MetadataArgument(args) ==
    IF args.metadata = None THEN EmptyMetadata
    ELSE IF args.kept THEN KeptObject(args)
    ELSE args.metadata[1]

\* The new issue holds the caller's own dict object.
KeepsObject(args) ==
    args.metadata # None /\ args.kept /\ KeptObject(args) # EmptyMetadata

\* Mutant: the id is taken from a fixed value, not generated.
NewIssue_FixedId(args) ==
    [id |-> 1, title |-> args.title, description |-> args.description,
     status |-> "open", priority |-> args.priority, issue_type |-> args.issue_type,
     assignee |-> args.assignee, created_at |-> clock, updated_at |-> clock,
     closed_at |-> None, parent_id |-> args.parent_id,
     discovered_from |-> args.discovered_from, blocking_notes |-> None,
     metadata |-> MetadataArgument(args)]

\* Issue(id=str(uuid.uuid4()), ...): the id is one no issue has had.
NewIssue(args) ==
    [id |-> Len(index.issues) + 1, title |-> args.title,
     description |-> args.description, status |-> "open",
     priority |-> args.priority, issue_type |-> args.issue_type,
     assignee |-> args.assignee, created_at |-> clock, updated_at |-> clock,
     closed_at |-> None, parent_id |-> args.parent_id,
     discovered_from |-> args.discovered_from, blocking_notes |-> None,
     metadata |-> MetadataArgument(args)]

CreateIssueWith(args) ==
    IF args.priority < MinPriority \/ args.priority > MaxPriority
       \/ args.issue_type \notin IssueTypeEnum
    THEN /\ Raise("create_issue", "ValidationError")
         /\ UNCHANGED <<index, store_issues, store_deps, events, clock>>
    ELSE LET issue == NewIssue(args)
             idx == add_issue(index, issue)
         IN /\ Len(index.issues) < MaxIssues
            /\ clock < MaxClock
            /\ index' = idx
            /\ SaveIssues(idx)
            /\ EmitEvent(issue.id, "created", [issue |-> IssueToDict(issue)])
            /\ clock' = clock + 1
            /\ last' = Result("create_issue", "ok", <<issue.id>>)
            /\ shared' = IF KeepsObject(args) THEN shared \cup {issue.id} ELSE shared
            /\ UNCHANGED <<rejections, outside>>
            /\ UNCHANGED store_deps

\* create_issue("t0", priority=priority, issue_type=issue_type)
create_issue(priority, issue_type) ==
    CreateIssueWith([CreateDefaults EXCEPT !.priority = priority,
                                           !.issue_type = issue_type])

\* The assignments update_issue makes before it validates status.
ApplyTitleDescription(issue, in) ==
    [issue EXCEPT
        !.title = IF in.title # None THEN in.title[1] ELSE @,
        !.description = IF in.description # None THEN in.description[1] ELSE @]

\* Mutant: a status other than 'closed' clears closed_at.
ApplyStatus_ClearsClosedAt(issue, in) ==
    [issue EXCEPT
        !.status = IF in.status # None THEN in.status[1] ELSE @,
        !.closed_at = IF in.status # None /\ in.status[1] # "closed" THEN None ELSE @]

ApplyStatus(issue, in) ==
    [issue EXCEPT !.status = IF in.status # None THEN in.status[1] ELSE @]

ApplyPriority(issue, in) ==
    [issue EXCEPT !.priority = IF in.priority # None THEN in.priority[1] ELSE @]

\* Mutant: the incoming map replaces the stored one.
MergeMetadata_Replaces(old, new) == new

MergeMetadata(old, new) ==
    [k \in DOMAIN old \cup DOMAIN new |-> IF k \in DOMAIN new THEN new[k] ELSE old[k]]

\* The assignments after both validations, updated_at included.
ApplyRest(issue, in, now) ==
    [issue EXCEPT
        !.assignee = IF in.assignee # None THEN in.assignee ELSE @,
        !.blocking_notes = IF in.blocking_notes # None THEN in.blocking_notes ELSE @,
        !.metadata = IF in.metadata # None THEN MergeMetadata(@, in.metadata[1]) ELSE @,
        !.updated_at = now]

\* The changes map of the updated event: {field: {old, new}} for each field
\* passed, and the incoming map for metadata.
Changes(issue, in) ==
    [f \in {x \in DOMAIN in : in[x] # None} |->
        IF f = "metadata" THEN in.metadata[1]
        ELSE [old |-> issue[f], new |-> in[f][1]]]

\* Mutant: update_issue assigns the status without checking it.
StatusInvalid_Unchecked(in) == FALSE

StatusInvalid(in) == in.status # None /\ in.status[1] \notin StatusEnum

PriorityInvalid(in) ==
    in.priority # None /\ (in.priority[1] < MinPriority \/ in.priority[1] > MaxPriority)

\* The issue object as update_issue leaves it when it raises "Invalid status":
\* the assignments made before the check stay made.
IssueAtStatusError(issue, in) == ApplyTitleDescription(issue, in)

\* The issue object as update_issue leaves it when it raises "Priority must be 0-4".
IssueAtPriorityError(issue, in) == ApplyStatus(ApplyTitleDescription(issue, in), in)

\* issue.metadata.update(metadata) changes the dict object in place: every
\* issue that holds the same object sees the merged content.
WriteShared(idx, issue_id) ==
    IF issue_id \notin shared THEN idx
    ELSE [idx EXCEPT !.issues =
            [i \in DOMAIN @ |->
                IF @[i].id \in shared
                THEN [@[i] EXCEPT !.metadata = get_issue(idx, issue_id)[1].metadata]
                ELSE @[i]]]

update_issue(issue_id, in) ==
    IF get_issue(index, issue_id) = None
    THEN /\ Raise("update_issue", "NotFoundError")
         /\ UNCHANGED <<index, store_issues, store_deps, events, clock>>
    ELSE LET issue == get_issue(index, issue_id)[1]
         IN IF StatusInvalid(in)
            THEN /\ index' = add_issue(index, IssueAtStatusError(issue, in))
                 /\ Raise("update_issue", "ValidationError")
                 /\ UNCHANGED <<store_issues, store_deps, events, clock>>
            ELSE IF PriorityInvalid(in)
            THEN /\ index' = add_issue(index, IssueAtPriorityError(issue, in))
                 /\ Raise("update_issue", "ValidationError")
                 /\ UNCHANGED <<store_issues, store_deps, events, clock>>
            ELSE LET updated == ApplyRest(ApplyPriority(ApplyStatus(
                                    ApplyTitleDescription(issue, in), in), in), in, clock)
                     idx == WriteShared(add_issue(index, updated), issue_id)
                 IN /\ clock < MaxClock
                    /\ index' = idx
                    /\ SaveIssues(idx)
                    /\ EmitEvent(issue_id, "updated", Changes(issue, in))
                    /\ clock' = clock + 1
                    /\ last' = Result("update_issue", "ok", <<issue_id>>)
                    /\ UNCHANGED <<rejections, shared, outside>>
                    /\ UNCHANGED store_deps

\* Mutant: close stamps the times and leaves the status.
CloseIssue_KeepsStatus(issue, now) ==
    [issue EXCEPT !.closed_at = Some(now), !.updated_at = now]

CloseIssue(issue, now) ==
    [issue EXCEPT !.status = "closed", !.closed_at = Some(now), !.updated_at = now]

\* Mutant: closing an issue that is closed already is refused.
CloseRefused_WhenClosed(idx, issue_id) ==
    \/ get_issue(idx, issue_id) = None
    \/ get_issue(idx, issue_id)[1].status = "closed"

\* The lookup close_issue makes before anything else.
CloseRefused(idx, issue_id) == get_issue(idx, issue_id) = None

\* close_issue once the issue is found.
CloseAccepted(issue_id, reason) ==
    LET idx == add_issue(index, CloseIssue(get_issue(index, issue_id)[1], clock))
    IN /\ index' = idx
       /\ SaveIssues(idx)
       /\ EmitEvent(issue_id, "closed", [reason |-> reason])
       /\ clock' = clock + 1
       /\ last' = Result("close_issue", "ok", <<issue_id>>)
       /\ UNCHANGED <<rejections, shared, outside>>
       /\ UNCHANGED store_deps

close_issue(issue_id, reason) ==
    IF CloseRefused(index, issue_id)
    THEN /\ Raise("close_issue", "NotFoundError")
         /\ UNCHANGED <<index, store_issues, store_deps, events, clock>>
    ELSE /\ clock < MaxClock
         /\ CloseAccepted(issue_id, reason)

Dependency(from_id, to_id, dep_type, now) ==
    [from_id |-> from_id, to_id |-> to_id, dep_type |-> dep_type, created_at |-> now]

\* Mutant: the edge is inserted before the cycle check.
IndexAtCycleError_Inserted(idx, from_id, to_id, dep_type) ==
    IndexAddDependency(idx, Dependency(from_id, to_id, dep_type, 0))

\* The index add_dependency leaves behind when detect_cycle reports a cycle.
IndexAtCycleError(idx, from_id, to_id, dep_type) == idx

\* Mutant: only the target of the edge is looked up.
EndpointsMissing_ToOnly(idx, from_id, to_id) ==
    get_issue(idx, to_id) = None

\* Mutant: only the source of the edge is looked up.
EndpointsMissing_FromOnly(idx, from_id, to_id) ==
    get_issue(idx, from_id) = None

\* The two lookups add_dependency makes before anything else.
EndpointsMissing(idx, from_id, to_id) ==
    get_issue(idx, from_id) = None \/ get_issue(idx, to_id) = None

add_dependency(from_id, to_id, dep_type) ==
    IF EndpointsMissing(index, from_id, to_id)
    THEN /\ Raise("add_dependency", "NotFoundError")
         /\ UNCHANGED <<index, store_issues, store_deps, events, clock>>
    ELSE IF dep_type \notin DepTypeEnum
    THEN /\ Raise("add_dependency", "ValidationError")
         /\ UNCHANGED <<index, store_issues, store_deps, events, clock>>
    ELSE IF detect_cycle(index, from_id, to_id)
    THEN /\ index' = IndexAtCycleError(index, from_id, to_id, dep_type)
         /\ Raise("add_dependency", "CycleError")
         /\ UNCHANGED <<store_issues, store_deps, events, clock>>
    ELSE LET idx == IndexAddDependency(index, Dependency(from_id, to_id, dep_type, clock))
         IN /\ clock < MaxClock
            /\ index' = idx
            /\ SaveDependencies(idx)
            /\ EmitEvent(from_id, "dependency_added",
                         [from_id |-> from_id, to_id |-> to_id, dep_type |-> dep_type])
            /\ clock' = clock + 1
            /\ last' = Result("add_dependency", "ok", <<from_id, to_id>>)
            /\ UNCHANGED <<rejections, shared, outside>>
            /\ UNCHANGED store_issues

remove_dependency(from_id, to_id) ==
    IF <<from_id, to_id>> \notin DepKeys(index)
    THEN /\ Raise("remove_dependency", "NotFoundError")
         /\ UNCHANGED <<index, store_issues, store_deps, events, clock>>
    ELSE LET idx == IndexRemoveDependency(index, from_id, to_id)
         IN /\ clock < MaxClock
            /\ index' = idx
            /\ SaveDependencies(idx)
            /\ EmitEvent(from_id, "dependency_removed",
                         [from_id |-> from_id, to_id |-> to_id])
            /\ clock' = clock + 1
            /\ last' = Result("remove_dependency", "ok", <<from_id, to_id>>)
            /\ UNCHANGED <<rejections, shared, outside>>
            /\ UNCHANGED store_issues

\* The order in which a loop visits a set of ids: one order, the ascending one.
RECURSIVE IterateSet(_)
IterateSet(ids) ==
    IF ids = {} THEN <<>>
    ELSE LET least == CHOOSE x \in ids : \A y \in ids : x <= y
         IN <<least>> \o IterateSet(ids \ {least})

\* The issues the ids resolve to, an id without an issue being dropped.
ResolveIssues(idx, ids) ==
    LET Found(id) == get_issue(idx, id) # None
        found == SelectSeq(IterateSet(ids), Found)
    IN [i \in DOMAIN found |-> get_issue(idx, found[i])[1]]

\* IssueManager.get_dependencies and IssueManager.get_dependents
Manager_get_dependencies(issue_id) == ResolveIssues(index, get_blockers(index, issue_id))

Manager_get_dependents(issue_id) == ResolveIssues(index, get_dependents(index, issue_id))

\* No storage call is under way; the file is empty.
IdleStorage ==
    [call |-> "none", pc |-> "idle", attempt |-> 0, retry_delay |-> 0,
     slept |-> <<>>, warned |-> FALSE, errno |-> 0, file |-> <<>>,
     before |-> <<>>, data |-> <<>>, written |-> 0, result |-> <<>>,
     calls |-> 0]

\* ---------------------------------------------------------- specification
\* IssueManager(data_dir) on an empty directory: absent files load as empty.
Init ==
    /\ index = LoadAll(<<>>, <<>>)
    /\ store_issues = <<>>
    /\ store_deps = <<>>
    /\ events = <<>>
    /\ clock = 1
    /\ last = Result("__init__", "ok", <<>>)
    /\ rejections = 0
    /\ shared = {}
    /\ other = None
    /\ worker = FALSE
    /\ io = IdleStorage

CreateIssue == \E p \in PriorityInputs, ty \in IssueTypeInputs : create_issue(p, ty)

UpdateIssue == \E id \in IdInputs, in \in UpdateInputs : update_issue(id, in)

CloseIssueCall == \E id \in IdInputs : close_issue(id, "Completed")

AddDependency ==
    \E f \in IdInputs, t \in IdInputs, ty \in DepTypeInputs : add_dependency(f, t, ty)

RemoveDependency == \E f \in IdInputs, t \in IdInputs : remove_dependency(f, t)

Next ==
    \/ CreateIssue
    \/ UpdateIssue
    \/ CloseIssueCall
    \/ AddDependency
    \/ RemoveDependency

Spec == Init /\ [][Next]_vars

\* The runs that exercise the fields of at most MaxFieldIssues issues, for at
\* most MaxFieldClock ticks.
FieldsCreateIssue ==
    \E args \in FieldCreateInputs :
        /\ Len(index.issues) < MaxFieldIssues
        /\ CreateIssueWith(args)
        /\ clock' <= MaxFieldClock

FieldsUpdateIssue ==
    \E id \in 1..MaxFieldIssues, in \in FieldUpdateInputs :
        /\ update_issue(id, in)
        /\ clock' <= MaxFieldClock

FieldsCloseIssue ==
    \E id \in 1..MaxFieldIssues, reason \in CloseReasons :
        /\ close_issue(id, reason)
        /\ clock' <= MaxFieldClock

FieldsAddDependency ==
    \E f \in 1..MaxFieldIssues, t \in 1..MaxFieldIssues :
        /\ add_dependency(f, t, "blocks")
        /\ clock' <= MaxFieldClock

FieldsNext ==
    \/ FieldsCreateIssue
    \/ FieldsUpdateIssue
    \/ FieldsCloseIssue
    \/ FieldsAddDependency

SpecFields == Init /\ [][FieldsNext]_vars

\* A short series of calls on at most MaxFieldIssues issues, for at most
\* MaxFieldClock ticks: the runs below start with it.
BasicUpdateInputs ==
    {[NoUpdate EXCEPT !.status = Some("in_progress")],
     [NoUpdate EXCEPT !.status = Some("blocked")],
     [NoUpdate EXCEPT !.title = Some("t1"), !.status = Some("done")]}

BasicCreateIssue ==
    \E p \in {0, 2} :
        /\ Len(index.issues) < MaxFieldIssues
        /\ create_issue(p, "task")
        /\ clock' <= MaxFieldClock

BasicUpdateIssue ==
    \E id \in 1..MaxFieldIssues, in \in BasicUpdateInputs :
        /\ update_issue(id, in)
        /\ clock' <= MaxFieldClock

BasicCloseIssue ==
    \E id \in 1..MaxFieldIssues :
        /\ close_issue(id, "Completed")
        /\ clock' <= MaxFieldClock

BasicAddDependency ==
    \E f \in 1..MaxFieldIssues, t \in 1..MaxFieldIssues, ty \in {"blocks", "related"} :
        /\ add_dependency(f, t, ty)
        /\ clock' <= MaxFieldClock

BasicRemoveDependency ==
    \E f \in 1..MaxFieldIssues, t \in 1..MaxFieldIssues :
        /\ remove_dependency(f, t)
        /\ clock' <= MaxFieldClock

\* A read method returns: the caller has the value, nothing is assigned.
Returns(op, value) ==
    /\ last' = Result(op, "ok", <<value>>)
    /\ UNCHANGED <<index, store_issues, store_deps, events, clock, rejections,
                   shared, outside>>

GetIssue == \E id \in 1..MaxFieldIssues : Returns("get_issue", get_issue(index, id))

ListIssues ==
    \E status \in {None, Some("open"), Some("closed")} :
        Returns("list_issues", list_issues(index, status, None, None, None))

GetDependencies ==
    \E id \in 1..MaxFieldIssues : Returns("get_dependencies", Manager_get_dependencies(id))

GetDependents ==
    \E id \in 1..MaxFieldIssues : Returns("get_dependents", Manager_get_dependents(id))

GetReadyIssues ==
    \E limit \in {None, Some(1)} : Returns("get_ready_issues", get_ready_issues(index, limit))

GetBlockedIssues == Returns("get_blocked_issues", get_blocked_issues(index))

\* Mutant: the edge under test is added to the index, not to a graph of its own.
IndexAfterDetectCycle_AddsEdge(idx, from_id, to_id) ==
    IndexAddDependency(idx, Dependency(from_id, to_id, "blocks", 0))

\* The index after detect_cycle(index, from_id, to_id): the edges and the
\* edge under test went into a DiGraph local to the call.
IndexAfterDetectCycle(idx, from_id, to_id) == idx

DetectCycle ==
    \E f \in 1..MaxFieldIssues, t \in 1..MaxFieldIssues :
        /\ index' = IndexAfterDetectCycle(index, f, t)
        /\ last' = Result("detect_cycle", "ok", <<detect_cycle(index, f, t)>>)
        /\ UNCHANGED <<store_issues, store_deps, events, clock, rejections,
                       shared, outside>>

ReadsNext ==
    \/ BasicCreateIssue
    \/ BasicUpdateIssue
    \/ BasicCloseIssue
    \/ BasicAddDependency
    \/ BasicRemoveDependency
    \/ GetIssue
    \/ ListIssues
    \/ GetDependencies
    \/ GetDependents
    \/ GetReadyIssues
    \/ GetBlockedIssues
    \/ DetectCycle

SpecReads == Init /\ [][ReadsNext]_vars

\* A caller that, after some calls, becomes a worker: from then on it only
\* closes the first issue get_ready_issues() returns, as long as there is one.
StartWorker ==
    /\ ~worker
    /\ worker' = TRUE
    /\ UNCHANGED <<index, store_issues, store_deps, events, clock, last,
                   rejections, shared, other, io>>

WorkerStep ==
    /\ worker
    /\ get_ready_issues(index, None) # <<>>
    /\ CloseAccepted(get_ready_issues(index, None)[1].id, "Completed")

WorkerNext ==
    \/ ~worker /\ BasicCreateIssue
    \/ ~worker /\ BasicUpdateIssue
    \/ ~worker /\ BasicCloseIssue
    \/ ~worker /\ BasicAddDependency
    \/ ~worker /\ BasicRemoveDependency
    \/ StartWorker
    \/ WorkerStep

\* The worker keeps working: a step of its loop that stays possible is taken.
SpecWorker == Init /\ [][WorkerNext]_vars /\ WF_vars(WorkerStep)

\* Two IssueManager instances on one data_dir: this one makes the calls, the
\* second is constructed at some point and loads the files as they are then.
ConstructOther ==
    /\ other = None
    /\ other' = Some(LoadAll(store_issues, store_deps))
    /\ last' = Result("__init__", "ok", <<>>)
    /\ UNCHANGED <<index, store_issues, store_deps, events, clock, rejections,
                   shared, worker, io>>

\* Mutant: the second instance loads the files again for every read.
OtherIndex_Reloads == LoadAll(store_issues, store_deps)

\* self.index of the second instance: what its read methods read.
OtherIndex == other[1]

TwoNext ==
    \/ BasicCreateIssue
    \/ BasicUpdateIssue
    \/ BasicCloseIssue
    \/ BasicAddDependency
    \/ BasicRemoveDependency
    \/ ConstructOther

SpecTwo == Init /\ [][TwoNext]_vars

\* The runs that call IssueIndex.add_dependency and remove_dependency
\* directly, with no check of the endpoints and no cycle check, on an index
\* of at most MaxEdges edges.
IndexAddDependencyCall ==
    \E f \in IdInputs, t \in IdInputs, ty \in {"blocks", "related"} :
        /\ Len(index.dependencies) < MaxEdges \/ <<f, t>> \in DepKeys(index)
        /\ index' = IndexAddDependency(index, Dependency(f, t, ty, clock))
        /\ last' = Result("IssueIndex.add_dependency", "ok", <<f, t>>)
        /\ UNCHANGED <<store_issues, store_deps, events, clock, rejections, shared, outside>>

IndexRemoveDependencyCall ==
    \E f \in IdInputs, t \in IdInputs :
        /\ index' = IndexRemoveDependency(index, f, t)
        /\ last' = Result("IssueIndex.remove_dependency", "ok", <<f, t>>)
        /\ UNCHANGED <<store_issues, store_deps, events, clock, rejections, shared, outside>>

IndexNext ==
    \/ IndexAddDependencyCall
    \/ IndexRemoveDependencyCall

SpecIndex == Init /\ [][IndexNext]_vars

\* ------------------------------------------------------------ properties
Issue(id) == get_issue(index, id)[1]

ReadyIds(idx) ==
    {get_ready_issues(idx, None)[i].id : i \in DOMAIN get_ready_issues(idx, None)}

BlockedIds(idx) ==
    {get_blocked_issues(idx)[i][1].id : i \in DOMAIN get_blocked_issues(idx)}

\* Every blocker of the issue is absent from the index or closed.
NoOpenBlocker(idx, id) ==
    \A b \in get_blockers(idx, id) :
        get_issue(idx, b) = None \/ get_issue(idx, b)[1].status = "closed"

\* The closed walks n[1] -> n[2] -> ... -> n[k] -> n[1] over the ids.
Walks == UNION {[1..k -> IdInputs] : k \in 1..MaxIssues}

IsCycleOf(walk, edges) ==
    \A i \in DOMAIN walk :
        <<walk[i], walk[IF i = Len(walk) THEN 1 ELSE i + 1]>> \in edges

\* C1: after any sequence of manager calls from an empty store, the edges of
\* the index, of every dep_type, form no directed cycle and no self-loop.
C1_NoDependencyCycle ==
    /\ \A walk \in Walks : ~IsCycleOf(walk, DepKeys(index))
    /\ \A id \in DOMAIN index.blockers : id \notin index.blockers[id]

\* A cycle was refused on a graph that holds an edge that is not of type blocks.
C1_Witness ==
    /\ last.result = "CycleError"
    /\ \E i \in DOMAIN index.dependencies : index.dependencies[i].dep_type = "related"

\* C2: an add_dependency refused for a cycle changes nothing: the index (edge
\* map and both adjacency maps), the persisted collections and the event log
\* are as before the call.
C2_CycleRejectionChangesNothing ==
    [][(last'.op = "add_dependency" /\ last'.result = "CycleError")
        => /\ index'.dependencies = index.dependencies
           /\ index'.blockers = index.blockers
           /\ index'.dependents = index.dependents
           /\ index'.issues = index.issues
           /\ store_deps' = store_deps
           /\ store_issues' = store_issues
           /\ events' = events]_vars

\* 1 -> 2 and 2 -> 3 are stored and the edge closing the cycle was refused.
C2_Witness ==
    /\ last.op = "add_dependency"
    /\ last.result = "CycleError"
    /\ Len(store_deps) = 2
    /\ DepKeys(index) = {<<1, 2>>, <<2, 3>>}

\* C3: get_ready_issues() without a limit returns exactly the issues that are
\* open or in_progress and whose blockers are all absent or closed, each once.
C3_ReadyExactly ==
    LET ready == get_ready_issues(index, None)
        expected == {id \in IssueIds(index) :
                        /\ Issue(id).status \in {"open", "in_progress"}
                        /\ NoOpenBlocker(index, id)}
    IN /\ ReadyIds(index) = expected
       /\ Len(ready) = Cardinality(expected)
       /\ \A i \in DOMAIN ready : ready[i] = Issue(ready[i].id)

\* An issue with a blocker, closed by now, is ready while another issue is not.
C3_Witness ==
    /\ \E id \in ReadyIds(index) : get_blockers(index, id) # {}
    /\ IssueIds(index) \ ReadyIds(index) # {}

\* C4: only edges of type blocks gate readiness: an open issue none of whose
\* blocks edges leads to an issue that is not closed is ready and not blocked.
C4_OnlyBlocksGate ==
    \A id \in IssueIds(index) :
        (/\ Issue(id).status = "open"
         /\ \A i \in DOMAIN index.dependencies :
               LET dep == index.dependencies[i]
               IN (dep.from_id = id /\ IsOpenBlocker(index, dep.to_id))
                     => dep.dep_type \in {"related", "parent-child", "discovered-from"})
        => (id \in ReadyIds(index) /\ id \notin BlockedIds(index))

\* C5: a call that raises a validation error has changed no state.
C5_ValidationErrorChangesNothing ==
    [][last'.result = "ValidationError"
        => /\ index' = index
           /\ store_issues' = store_issues
           /\ store_deps' = store_deps
           /\ events' = events]_vars

\* C6: a fresh manager on the same storage location holds the state of the
\* running one, and answers get_ready_issues() alike.
C6_ReloadEqualsIndex ==
    LET fresh == LoadAll(store_issues, store_deps)
    IN /\ fresh.issues = index.issues
       /\ fresh.dependencies = index.dependencies
       /\ fresh.blockers = index.blockers
       /\ fresh.dependents = index.dependents
       /\ get_ready_issues(fresh, None) = get_ready_issues(index, None)

\* C7, first half: an open issue with an edge to an issue that is not closed
\* is not ready.
C7_NotReadyWhileBlocked ==
    \A a \in IssueIds(index), b \in IssueIds(index) :
        (<<a, b>> \in DepKeys(index) /\ Issue(a).status = "open"
            /\ Issue(b).status # "closed")
        => a \notin ReadyIds(index)

\* C7, second half: close_issue(b) makes a ready and not blocked, when a is
\* still open or in_progress and has no other blocker that is not closed.
C7_CloseStep ==
    \A a \in IssueIds(index), b \in IssueIds(index) :
        (/\ <<a, b>> \in DepKeys(index)
         /\ Issue(a).status = "open"
         /\ Issue(b).status # "closed"
         /\ last' = Result("close_issue", "ok", <<b>>)
         /\ get_issue(index', a)[1].status \in {"open", "in_progress"}
         /\ \A c \in get_blockers(index', a) \ {b} : ~IsOpenBlocker(index', c))
        => (a \in ReadyIds(index') /\ a \notin BlockedIds(index'))

\* C7: an open issue with a dependency on an issue that is not closed is not
\* ready, and is ready and not blocked once close_issue has closed that issue.
C7_ClosingBlockerUnblocks == []C7_NotReadyWhileBlocked /\ [][C7_CloseStep]_vars

\* close_issue has just closed the only blocker of an open issue.
C7_Witness ==
    /\ last.op = "close_issue"
    /\ last.result = "ok"
    /\ \E a \in ReadyIds(index) : get_blockers(index, a) = {last.args[1]}

\* C8 as stated: an issue of status blocked with no blocker that is not
\* closed is returned by get_ready_issues().
C8_BlockedStatusIsReady ==
    \A id \in IssueIds(index) :
        (Issue(id).status = "blocked" /\ NoOpenBlocker(index, id))
        => id \in ReadyIds(index)

\* C8 amended: an issue of status blocked is never returned by
\* get_ready_issues(), whatever its blockers; with no blocker that is not
\* closed it is in neither result.
C8_BlockedStatusNeverReady ==
    \A id \in IssueIds(index) :
        Issue(id).status = "blocked"
        => /\ id \notin ReadyIds(index)
           /\ NoOpenBlocker(index, id) => id \notin BlockedIds(index)

\* An issue set to blocked whose only blocker has been closed.
C8_Witness ==
    \E id \in IssueIds(index) :
        /\ Issue(id).status = "blocked"
        /\ get_blockers(index, id) # {}
        /\ NoOpenBlocker(index, id)

\* C9: get_blocked_issues() has one tuple for exactly the issues that are not
\* closed and have a blocker in the index that is not closed, and the tuple
\* lists exactly those blockers.
C9_BlockedExactly ==
    LET blocked == get_blocked_issues(index)
        expected == {id \in IssueIds(index) :
                        /\ Issue(id).status # "closed"
                        /\ \E b \in get_blockers(index, id) : IsOpenBlocker(index, b)}
    IN /\ BlockedIds(index) = expected
       /\ Len(blocked) = Cardinality(expected)
       /\ \A i \in DOMAIN blocked :
            /\ blocked[i][1] = Issue(blocked[i][1].id)
            /\ blocked[i][2] =
                 {Issue(b) : b \in {x \in get_blockers(index, blocked[i][1].id) :
                                        IsOpenBlocker(index, x)}}
            /\ \A blocker \in blocked[i][2] : blocker.status # "closed"

\* close_issue has closed an issue that has an open blocker: it is not listed.
C9_Witness ==
    /\ last.op = "close_issue"
    /\ last.result = "ok"
    /\ ~NoOpenBlocker(index, last.args[1])
    /\ last.args[1] \notin BlockedIds(index)

\* C10: the result of get_ready_issues() is sorted ascending by priority.
C10_ReadySortedByPriority ==
    LET ready == get_ready_issues(index, None)
    IN \A i \in DOMAIN ready, j \in DOMAIN ready :
          i < j => ready[i].priority <= ready[j].priority

\* Three ready issues, the one created last returned first.
C10_Witness ==
    LET ready == get_ready_issues(index, None)
    IN Len(ready) = 3 /\ ready[1].id = 3 /\ ready[1].priority < ready[2].priority

\* C11: with a limit n >= 0, get_ready_issues returns exactly the first
\* min(n, length) entries of the unlimited, priority-sorted result, so the
\* entries kept have the numerically lowest priorities.
LimitInputs == 0..(MaxIssues + 1)

C11_LimitTakesSortedPrefix ==
    \A n \in LimitInputs :
        LET all == get_ready_issues(index, None)
            cut == get_ready_issues(index, Some(n))
            m == IF n < Len(all) THEN n ELSE Len(all)
        IN /\ Len(cut) = m
           /\ \A i \in 1..m : cut[i] = all[i]
           /\ \A i \in 1..m : \A j \in (m + 1)..Len(all) :
                  cut[i].priority <= all[j].priority

\* Three issues are ready with different priorities: a limit of 0, 1 or 2
\* cuts the list.
C11_Witness ==
    LET all == get_ready_issues(index, None)
    IN /\ Len(all) = MaxIssues
       /\ all[1].priority < all[Len(all)].priority
       /\ Len(get_ready_issues(index, Some(0))) = 0
       /\ Len(get_ready_issues(index, Some(2))) = 2

\* C12: update_issue and close_issue on an id that is not in the index,
\* add_dependency with an endpoint that is not in the index, and
\* remove_dependency on a pair that is not an edge, all end in a not-found
\* error, and a call that ends so leaves the index, both stored collections
\* and the event log as they were.
C12_NotFoundStep ==
    /\ last'.result = "NotFoundError"
           => UNCHANGED <<index, store_issues, store_deps, events>>
    /\ \A id \in IdInputs \ IssueIds(index) :
           /\ \A in \in UpdateInputs :
                  update_issue(id, in) => last'.result = "NotFoundError"
           /\ close_issue(id, "Completed") => last'.result = "NotFoundError"
    /\ \A f \in IdInputs, t \in IdInputs :
           /\ (f \notin IssueIds(index) \/ t \notin IssueIds(index))
                  => \A ty \in DepTypeInputs :
                         add_dependency(f, t, ty) => last'.result = "NotFoundError"
           /\ (<<f, t>> \notin DepKeys(index) /\ remove_dependency(f, t))
                  => last'.result = "NotFoundError"

C12_NotFoundChangesNothing == [][C12_NotFoundStep]_vars

\* add_dependency was refused for a missing endpoint while the other
\* endpoint and an edge exist.
C12_Witness ==
    /\ last = Result("add_dependency", "NotFoundError", <<>>)
    /\ Len(index.issues) = 2
    /\ Len(index.dependencies) = 1
    /\ Len(events) = 3

\* The event type each mutating call records.
EventTypeOf(op) ==
    CASE op = "create_issue" -> "created"
      [] op = "update_issue" -> "updated"
      [] op = "close_issue" -> "closed"
      [] op = "add_dependency" -> "dependency_added"
      [] op = "remove_dependency" -> "dependency_removed"

\* C13: every successful create_issue, update_issue, close_issue,
\* add_dependency and remove_dependency call extends the event log by exactly
\* one event of the matching type, carrying the issue id (the source of the
\* edge for a dependency call) and the manager's actor; every event recorded
\* before the call is still there, unchanged and in place.
C13_EventStep ==
    /\ Len(events') >= Len(events)
    /\ SubSeq(events', 1, Len(events)) = events
    /\ last'.result = "ok"
           => /\ Len(events') = Len(events) + 1
              /\ events'[Len(events')].event_type = EventTypeOf(last'.op)
              /\ events'[Len(events')].issue_id = last'.args[1]
              /\ events'[Len(events')].actor = Actor

C14_IssueEventsFiltered ==
    \A id \in IdInputs :
        LET ev == get_issue_events(id)
            all == load_events(events)
        IN /\ \A i \in DOMAIN ev : ev[i].issue_id = id
           /\ Len(ev) = Cardinality({j \in DOMAIN all : all[j].issue_id = id})
           /\ \A i \in DOMAIN ev : \A j \in DOMAIN ev : i < j => ev[i].id < ev[j].id
           /\ \A i \in DOMAIN ev : \E j \in DOMAIN all : all[j] = ev[i]
           /\ id \in IssueIds(index)
                  => /\ ev # <<>>
                     /\ ev[1].event_type = "created"
                     /\ \A i \in 2..Len(ev) : ev[i].event_type # "created"
           /\ id \notin IssueIds(index) => ev = <<>>

\* Issue 1 was created, updated and closed while issue 2 was created in
\* between: the log interleaves the two.
C14_Witness ==
    /\ Len(events) >= 4
    /\ events[2].issue_id = 2
    /\ Len(get_issue_events(1)) = 3
    /\ get_issue_events(1)[2].event_type = "updated"
    /\ get_issue_events(1)[3].event_type = "closed"
    /\ get_issue_events(1)[3].timestamp > get_issue_events(1)[1].timestamp

\* C15: in every reachable state every issue of the index has a priority in
\* 0..4, a status among open, in_progress, blocked, closed and an issue_type
\* among bug, feature, task, epic, chore, whatever calls, accepted or
\* rejected, have been made.
C15_FieldsWithinEnums ==
    \A i \in DOMAIN index.issues :
        /\ index.issues[i].priority \in MinPriority..MaxPriority
        /\ index.issues[i].status \in StatusEnum
        /\ index.issues[i].issue_type \in IssueTypeEnum

\* update_issue(status='closed', priority=5) was rejected for the priority
\* after the status had been assigned.
C15_Witness ==
    /\ last = Result("update_issue", "ValidationError", <<>>)
    /\ \E i \in DOMAIN index.issues :
           /\ index.issues[i].status = "closed"
           /\ index.issues[i].closed_at = None
           /\ index.issues[i].priority = 0

\* C16: create_issue with valid arguments adds exactly one issue, with
\* status 'open' and an id no issue or event has carried before; the issues
\* that existed and all dependency edges are unchanged; the set of issue ids
\* never loses a member in any step.
C16_CreateStep ==
    /\ IssueIds(index) \subseteq IssueIds(index')
    /\ (last'.op = "create_issue" /\ last'.result = "ok")
           => LET new == index'.issues[Len(index'.issues)]
              IN /\ Len(index'.issues) = Len(index.issues) + 1
                 /\ SubSeq(index'.issues, 1, Len(index.issues)) = index.issues
                 /\ new.status = "open"
                 /\ new.id = last'.args[1]
                 /\ new.id \notin IssueIds(index)
                 /\ \A i \in DOMAIN events : events[i].issue_id # new.id
                 /\ index'.dependencies = index.dependencies
                 /\ index'.blockers = index.blockers
                 /\ index'.dependents = index.dependents
                 /\ store_deps' = store_deps
    /\ \A p \in PriorityInputs, ty \in IssueTypeInputs :
           (p \in MinPriority..MaxPriority /\ ty \in IssueTypeEnum /\ create_issue(p, ty))
               => last'.result = "ok"

C16_CreateAddsOneFreshIssue == [][C16_CreateStep]_vars

\* The third issue was created while an edge between the first two existed.
C16_Witness ==
    /\ last = Result("create_issue", "ok", <<3>>)
    /\ Len(index.issues) = 3
    /\ Len(index.dependencies) = 1
    /\ index.issues[3].status = "open"

\* The stored edge of the index for an ordered pair.
EdgeOf(idx, from_id, to_id) ==
    CHOOSE d \in {idx.dependencies[i] : i \in DOMAIN idx.dependencies} :
        d.from_id = from_id /\ d.to_id = to_id

\* C20 (state part): the index and dependencies.jsonl hold at most one edge
\* per ordered pair.
C20_OneEdgePerPair ==
    /\ Cardinality(DepKeys(index)) = Len(index.dependencies)
    /\ Cardinality({<<store_deps[i].from_id, store_deps[i].to_id>> :
                       i \in DOMAIN store_deps}) = Len(store_deps)

\* C20 (step part): add_dependency on a pair that is already an edge is not
\* refused as a cycle; it leaves the number of edges, the pairs and both
\* adjacency maps as they were, keeps every other edge, and the edge of the
\* pair carries the dep_type of the call.
C20_OverwriteStep ==
    \A f \in IdInputs, t \in IdInputs :
        <<f, t>> \in DepKeys(index)
            => \A ty \in DepTypeEnum :
                   add_dependency(f, t, ty)
                       => /\ last'.result = "ok"
                          /\ Len(index'.dependencies) = Len(index.dependencies)
                          /\ DepKeys(index') = DepKeys(index)
                          /\ index'.blockers = index.blockers
                          /\ index'.dependents = index.dependents
                          /\ EdgeOf(index', f, t).dep_type = ty
                          /\ \A i \in DOMAIN index.dependencies :
                                 index.dependencies[i] # EdgeOf(index, f, t)
                                     => index'.dependencies[i] = index.dependencies[i]

\* C20: a second add_dependency for an existing pair overwrites the first.
C20_SecondAddOverwrites == []C20_OneEdgePerPair /\ [][C20_OverwriteStep]_vars

\* The edge 2 -> 1 was added as 'blocks' and added again as 'related'
\* without being removed in between: one edge, of type 'related'.
C20_Witness ==
    /\ last = Result("add_dependency", "ok", <<2, 1>>)
    /\ Len(index.dependencies) = 1
    /\ index.dependencies[1].dep_type = "related"
    /\ \E i \in DOMAIN events :
           /\ events[i].event_type = "dependency_added"
           /\ events[i].changes.dep_type = "blocks"
           /\ events[i].changes.from_id = 2
           /\ events[i].changes.to_id = 1
    /\ \A i \in DOMAIN events : events[i].event_type # "dependency_removed"

\* C17 (state part): close_issue can be called with success on every issue
\* of the index, whatever its status.
C17_Closable ==
    \A id \in IssueIds(index) :
        ENABLED (close_issue(id, "Completed") /\ last'.result = "ok")

\* C17 (step part): close_issue on an issue of the index, closed ones
\* included, ends without error, leaves the issue 'closed' with closed_at
\* set, and appends a 'closed' event for it that carries the reason.
C17_CloseStep ==
    \A id \in IssueIds(index), reason \in CloseReasons :
        close_issue(id, reason)
            => /\ last'.result = "ok"
               /\ get_issue(index', id)[1].status = "closed"
               /\ get_issue(index', id)[1].closed_at # None
               /\ events' = Append(events, events'[Len(events')])
               /\ events'[Len(events')].event_type = "closed"
               /\ events'[Len(events')].issue_id = id
               /\ events'[Len(events')].changes = [reason |-> reason]

\* C17: close_issue succeeds from every status.
C17_CloseFromEveryStatus == []C17_Closable /\ [][C17_CloseStep]_vars

\* An issue that was blocked was closed, and then closed again with another
\* reason.
C17_Witness ==
    /\ last = Result("close_issue", "ok", <<1>>)
    /\ Len(events) = 4
    /\ events[2].event_type = "updated"
    /\ events[2].changes = [status |-> [old |-> "open", new |-> "blocked"]]
    /\ events[3].event_type = "closed"
    /\ events[3].changes.reason = "Completed"
    /\ events[4].event_type = "closed"
    /\ events[4].changes.reason = "duplicate"
    /\ Issue(1).status = "closed"
    /\ Issue(1).closed_at # None

\* C18: update_issue(id, metadata=m) merges key-wise: afterwards the
\* metadata has the keys it had and the keys of m, every key of m with m's
\* value and every other key with its previous value.
C18_MergeStep ==
    \A id \in IssueIds(index), in \in FieldUpdateInputs :
        (in.metadata # None /\ update_issue(id, in) /\ last'.result = "ok")
            => LET old == Issue(id).metadata
                   new == get_issue(index', id)[1].metadata
                   m == in.metadata[1]
               IN /\ DOMAIN new = DOMAIN old \cup DOMAIN m
                  /\ \A k \in DOMAIN m : new[k] = m[k]
                  /\ \A k \in DOMAIN old \ DOMAIN m : new[k] = old[k]

C18_MetadataMerges == [][C18_MergeStep]_vars

\* An issue created with {k0: v0} got {k: v1} and then {k: v2, k2: v2}:
\* it holds k0 -> v0, k -> v2 and k2 -> v2.
C18_Witness ==
    /\ Len(events) = 3
    /\ events[1].changes.issue.metadata = MetaCreated
    /\ events[2].event_type = "updated"
    /\ events[2].changes = [metadata |-> MetaFirst]
    /\ events[3].event_type = "updated"
    /\ events[3].changes = [metadata |-> MetaSecond]
    /\ DOMAIN Issue(1).metadata = {"k0", "k", "k2"}
    /\ Issue(1).metadata["k0"] = "v0"
    /\ Issue(1).metadata["k"] = "v2"
    /\ Issue(1).metadata["k2"] = "v2"

\* The fields update_issue can assign, besides updated_at.
UpdatableFields == DOMAIN NoUpdate

\* The fields neither update_issue nor close_issue assigns.
FixedFields == {"id", "issue_type", "created_at", "parent_id", "discovered_from"}

\* C19: a successful update_issue leaves every field that was not passed
\* with its previous value and gives every field that was passed its new
\* value (metadata: the merge); no step of update_issue or close_issue,
\* successful or not, changes id, issue_type, created_at, parent_id or
\* discovered_from of an issue; a successful update_issue or close_issue
\* leaves the other issues and all dependency edges unchanged.
C19_FrameStep ==
    /\ \A id \in IssueIds(index), in \in FieldUpdateInputs :
           (update_issue(id, in) /\ last'.result = "ok")
               => LET old == Issue(id)
                      new == get_issue(index', id)[1]
                  IN /\ \A f \in UpdatableFields : in[f] = None => new[f] = old[f]
                     /\ \A f \in UpdatableFields \ {"assignee", "blocking_notes", "metadata"} :
                            in[f] # None => new[f] = in[f][1]
                     /\ \A f \in {"assignee", "blocking_notes"} :
                            in[f] # None => new[f] = in[f]
                     /\ in.metadata # None
                            => \A k \in DOMAIN in.metadata[1] :
                                   new.metadata[k] = in.metadata[1][k]
                     /\ new.closed_at = old.closed_at
                     /\ \A i \in DOMAIN index.issues :
                            index.issues[i].id # id => index'.issues[i] = index.issues[i]
    /\ last'.op \in {"update_issue", "close_issue"}
           => /\ Len(index'.issues) = Len(index.issues)
              /\ \A i \in DOMAIN index.issues : \A f \in FixedFields :
                     index'.issues[i][f] = index.issues[i][f]
              /\ index'.dependencies = index.dependencies
              /\ index'.blockers = index.blockers
              /\ index'.dependents = index.dependents
              /\ store_deps' = store_deps
              /\ last'.result = "ok"
                     => \A i \in DOMAIN index.issues :
                            index.issues[i].id # last'.args[1]
                                => index'.issues[i] = index.issues[i]

C19_UpdateChangesOnlyGivenFields == [][C19_FrameStep]_vars

\* C26 (state part): an issue for which no close_issue call has been
\* logged has no closed_at.
C26_NullUntilClosed ==
    \A i \in DOMAIN index.issues :
        (\A j \in DOMAIN events :
             ~(events[j].event_type = "closed"
               /\ events[j].issue_id = index.issues[i].id))
            => index.issues[i].closed_at = None

\* C26 (step part): a step changes the closed_at of an issue only if it is
\* close_issue on that issue; update_issue, accepted or rejected, leaves
\* every closed_at as it was, also when it sets status 'closed' or moves a
\* closed issue to another status.
C26_ClosedAtStep ==
    /\ \A i \in DOMAIN index.issues :
           index'.issues[i].closed_at # index.issues[i].closed_at
               => last' = Result("close_issue", "ok", <<index.issues[i].id>>)
    /\ \A id \in IssueIds(index), in \in FieldUpdateInputs :
           update_issue(id, in)
               => get_issue(index', id)[1].closed_at = Issue(id).closed_at

C26_ClosedAtOnlyByClose == []C26_NullUntilClosed /\ [][C26_ClosedAtStep]_vars

\* Issue 1 was closed by close_issue and then moved back to 'open' by
\* update_issue: it is open and still carries its closed_at.
C26_Witness ==
    /\ last = Result("update_issue", "ok", <<1>>)
    /\ Len(events) = 3
    /\ events[2].event_type = "closed"
    /\ events[3].event_type = "updated"
    /\ events[3].changes = [status |-> [old |-> "closed", new |-> "open"]]
    /\ Issue(1).status = "open"
    /\ Issue(1).closed_at = Some(2)

\* The ids of a list of issues.
IdsOf(issues) == {issues[i].id : i \in DOMAIN issues}

\* C29: both endpoints of every edge are issues of the index; so
\* get_dependencies(id) returns exactly one issue, the one in the index, for
\* each id of get_blockers(id), and B is among get_dependencies(A) iff A is
\* among get_dependents(B).
C29_NoDanglingEdge ==
    /\ \A e \in DepKeys(index) : e[1] \in IssueIds(index) /\ e[2] \in IssueIds(index)
    /\ \A id \in IdInputs :
           LET deps == Manager_get_dependencies(id)
           IN /\ Len(deps) = Cardinality(get_blockers(index, id))
              /\ IdsOf(deps) = get_blockers(index, id)
              /\ \A i \in DOMAIN deps : deps[i] = Issue(deps[i].id)
    /\ \A a \in IdInputs, b \in IdInputs :
           b \in IdsOf(Manager_get_dependencies(a))
               <=> a \in IdsOf(Manager_get_dependents(b))

\* Issue 3 depends on issues 1 and 2, one of them closed or not.
C29_Witness ==
    /\ Len(Manager_get_dependencies(3)) = 2
    /\ IdsOf(Manager_get_dependencies(3)) = {1, 2}
    /\ IdsOf(Manager_get_dependents(1)) = {3}
    /\ Manager_get_dependencies(1) = <<>>

\* C27: after any sequence of IssueIndex.add_dependency and
\* remove_dependency calls the edge map and the two adjacency maps agree:
\* to_id is in blockers[from_id] iff (from_id, to_id) is a key of the edge
\* map iff from_id is in dependents[to_id]; and no key of either adjacency
\* map has an empty set.
C27_AdjacencyAgrees ==
    /\ \A f \in IdInputs, t \in IdInputs :
           /\ (f \in DOMAIN index.blockers /\ t \in index.blockers[f])
                  <=> <<f, t>> \in DepKeys(index)
           /\ (t \in DOMAIN index.dependents /\ f \in index.dependents[t])
                  <=> <<f, t>> \in DepKeys(index)
    /\ DOMAIN index.blockers \subseteq IdInputs
    /\ DOMAIN index.dependents \subseteq IdInputs
    /\ \A k \in DOMAIN index.blockers : index.blockers[k] # {}
    /\ \A k \in DOMAIN index.dependents : index.dependents[k] # {}

\* Of the edges 1 -> 2 and 1 -> 3 the first was removed: issue 1 keeps its
\* entry in blockers, issue 2 has lost its entry in dependents.
C27_Witness ==
    /\ last = Result("IssueIndex.remove_dependency", "ok", <<1, 2>>)
    /\ DepKeys(index) = {<<1, 3>>}
    /\ DOMAIN index.blockers = {1}
    /\ index.blockers[1] = {3}
    /\ DOMAIN index.dependents = {3}

\* A directed path of existing edges from a to b, of one edge or more.
PathExists(edges, a, b) ==
    \E k \in 2..MaxIssues : \E p \in [1..k -> IdInputs] :
        /\ p[1] = a
        /\ p[k] = b
        /\ \A i \in 1..(k - 1) : <<p[i], p[i + 1]>> \in edges

Acyclic(edges) == \A walk \in Walks : ~IsCycleOf(walk, edges)

\* C28: on an index whose edges are acyclic, detect_cycle(index, from_id,
\* to_id) is true iff from_id = to_id or from_id is reachable from to_id
\* through the edges, whatever their dep_type; it is false for a pair that is
\* an edge already.
C28_DetectCycleIffReachable ==
    Acyclic(DepKeys(index))
        => /\ \A f \in IdInputs, t \in IdInputs :
                  detect_cycle(index, f, t)
                      <=> (f = t \/ PathExists(DepKeys(index), t, f))
           /\ \A e \in DepKeys(index) : ~detect_cycle(index, e[1], e[2])

\* The index holds 1 -> 2 (related) and 2 -> 3 (blocks): the edge 3 -> 1
\* would close a cycle of three, the edge 1 -> 3 would not.
C28_Witness ==
    /\ Len(index.dependencies) = 2
    /\ DepKeys(index) = {<<1, 2>>, <<2, 3>>}
    /\ index.dependencies[1].dep_type = "related"
    /\ index.dependencies[2].dep_type = "blocks"
    /\ detect_cycle(index, 3, 1)
    /\ ~detect_cycle(index, 1, 3)
    /\ ~detect_cycle(index, 1, 2)

\* What get_issue, list_issues, get_ready_issues and get_blocked_issues
\* return on an index, for every id, every status filter and every limit.
Reads(idx) ==
    [get_issue |-> [id \in IdInputs |-> get_issue(idx, id)],
     list_issues |-> [st \in StatusEnum |-> list_issues(idx, Some(st), None, None, None)],
     list_all |-> list_issues(idx, None, None, None, None),
     get_ready_issues |-> [n \in 0..MaxIssues |-> get_ready_issues(idx, Some(n))],
     get_ready_all |-> get_ready_issues(idx, None),
     get_blocked_issues |-> get_blocked_issues(idx)]

\* C24: once the second instance is constructed, no call made through the
\* first changes what the second's get_issue, list_issues, get_ready_issues
\* and get_blocked_issues return.
C24_OtherViewStep ==
    (other # None /\ other' # None) => Reads(OtherIndex') = Reads(OtherIndex)

C24_OtherNeverSeesLaterMutations == [][C24_OtherViewStep]_vars

\* The second instance was constructed when issue 1 existed; the first has
\* since created issue 2 and closed issue 1, and the files hold both facts.
C24_Witness ==
    /\ other # None
    /\ Len(store_issues) = 2
    /\ Issue(1).status = "closed"
    /\ store_issues[1].status = "closed"
    /\ get_issue(OtherIndex, 1) # None
    /\ get_issue(OtherIndex, 1)[1].status = "open"
    /\ get_issue(OtherIndex, 2) = None
    /\ Len(get_ready_issues(OtherIndex, None)) = 1

ReadOps ==
    {"get_issue", "list_issues", "get_dependencies", "get_dependents",
     "get_ready_issues", "get_blocked_issues", "detect_cycle"}

\* C25: get_issue, list_issues, get_dependencies, get_dependents,
\* get_ready_issues, get_blocked_issues and detect_cycle leave the issues,
\* the edge map, both adjacency maps, the two stored collections and the
\* event log unchanged; the edge detect_cycle examines is not in the index
\* afterwards unless it was before.
C25_ReadStep ==
    last'.op \in ReadOps
        => /\ index'.issues = index.issues
           /\ index'.dependencies = index.dependencies
           /\ index'.blockers = index.blockers
           /\ index'.dependents = index.dependents
           /\ DepKeys(index') = DepKeys(index)
           /\ UNCHANGED <<store_issues, store_deps, events>>

C25_ReadsChangeNothing == [][C25_ReadStep]_vars

\* detect_cycle examined the reverse of the only edge and found a cycle:
\* the index still holds the one edge.
C25_Witness ==
    /\ last.op = "detect_cycle"
    /\ last.args[1] = TRUE
    /\ Len(index.dependencies) = 1
    /\ DepKeys(index) = {<<2, 1>>}
    /\ index.blockers = [k \in {2} |-> {1}]
    /\ Len(store_deps) = 1

\* Every issue that is not closed is open or in_progress.
Workable == \A i \in DOMAIN index.issues :
                index.issues[i].status \in {"open", "in_progress", "closed"}

\* C30 (state part): when some issue is not closed and every issue that is
\* not closed is open or in_progress, get_ready_issues() is not empty.
C30_ReadyExists ==
    ((\E i \in DOMAIN index.issues : index.issues[i].status # "closed") /\ Workable)
        => get_ready_issues(index, None) # <<>>

\* Every issue is closed and neither list has an entry.
C30_AllDone ==
    /\ \A i \in DOMAIN index.issues : index.issues[i].status = "closed"
    /\ get_ready_issues(index, None) = <<>>
    /\ get_blocked_issues(index) = <<>>

\* C30: scheduling makes progress: from a state of the state part, a worker
\* that keeps closing the first ready issue, with no other call made,
\* eventually has every issue closed and both lists empty.
C30_WorkerFinishes ==
    /\ []C30_ReadyExists
    /\ (worker /\ Workable) ~> C30_AllDone

\* The worker has closed two issues, one of which depended on the other.
C30_Witness ==
    /\ worker
    /\ Len(index.issues) = 2
    /\ Len(index.dependencies) = 1
    /\ C30_AllDone
    /\ Len(events) = 5
    /\ events[4].event_type = "closed"
    /\ events[5].event_type = "closed"
    /\ events[4].issue_id = index.dependencies[1].to_id
    /\ events[5].issue_id = index.dependencies[1].from_id


\* ------------------------------------------------- storage errors in a call
\* What a file holds after _write_jsonl raised OSError: the content it had
\* (open failed), or as many lines of the new content as were written after
\* open(path, "w") emptied it.
FailedWrite(old, new) == {old} \cup {SubSeq(new, 1, k) : k \in 0..Len(new)}

\* The call raises the OSError of the storage; now() was called before it.
StorageError(op, error) ==
    /\ rejections < MaxRejected
    /\ rejections' = rejections + 1
    /\ clock < MaxClock
    /\ clock' = clock + 1
    /\ clock' <= MaxFieldClock
    /\ last' = Result(op, error, <<>>)
    /\ UNCHANGED <<shared, outside>>

\* A mutating method from the assignment to the index on, when the storage
\* raises OSError: in _save_issues / _save_dependencies (fault "save"), the
\* lines after it not being run, or in _emit_event (fault "append").
FaultInputs == {"save", "append"}

MutationFaulted(op, idx, collection, fault) ==
    /\ index' = idx
    /\ IF collection = "issues"
       THEN /\ store_issues' \in IF fault = "save"
                                 THEN FailedWrite(store_issues, save_issues(idx.issues))
                                 ELSE {save_issues(idx.issues)}
            /\ UNCHANGED store_deps
       ELSE /\ store_deps' \in IF fault = "save"
                               THEN FailedWrite(store_deps,
                                        save_dependencies(get_all_dependencies(idx)))
                               ELSE {save_dependencies(get_all_dependencies(idx))}
            /\ UNCHANGED store_issues
    /\ UNCHANGED events
    /\ StorageError(op, IF fault = "save" THEN "OSError in save"
                                          ELSE "OSError in append_event")

CreateIssueFaulted ==
    \E p \in {0, 2}, fault \in FaultInputs :
        LET args == [CreateDefaults EXCEPT !.priority = p]
        IN /\ Len(index.issues) < MaxFieldIssues
           /\ MutationFaulted("create_issue", add_issue(index, NewIssue(args)),
                              "issues", fault)

UpdateIssueFaulted ==
    \E id \in 1..MaxFieldIssues, in \in BasicUpdateInputs, fault \in FaultInputs :
        /\ get_issue(index, id) # None
        /\ ~StatusInvalid(in)
        /\ ~PriorityInvalid(in)
        /\ MutationFaulted("update_issue",
               WriteShared(add_issue(index,
                   ApplyRest(ApplyPriority(ApplyStatus(ApplyTitleDescription(
                       get_issue(index, id)[1], in), in), in), in, clock)), id),
               "issues", fault)

CloseIssueFaulted ==
    \E id \in 1..MaxFieldIssues, fault \in FaultInputs :
        /\ ~CloseRefused(index, id)
        /\ MutationFaulted("close_issue",
               add_issue(index, CloseIssue(get_issue(index, id)[1], clock)),
               "issues", fault)

AddDependencyFaulted ==
    \E f \in 1..MaxFieldIssues, t \in 1..MaxFieldIssues, ty \in {"blocks", "related"},
       fault \in FaultInputs :
        /\ ~EndpointsMissing(index, f, t)
        /\ ~detect_cycle(index, f, t)
        /\ MutationFaulted("add_dependency",
               IndexAddDependency(index, Dependency(f, t, ty, clock)),
               "dependencies", fault)

RemoveDependencyFaulted ==
    \E f \in 1..MaxFieldIssues, t \in 1..MaxFieldIssues, fault \in FaultInputs :
        /\ <<f, t>> \in DepKeys(index)
        /\ MutationFaulted("remove_dependency", IndexRemoveDependency(index, f, t),
                           "dependencies", fault)

IONext ==
    \/ BasicCreateIssue
    \/ BasicUpdateIssue
    \/ BasicCloseIssue
    \/ BasicAddDependency
    \/ BasicRemoveDependency
    \/ CreateIssueFaulted
    \/ UpdateIssueFaulted
    \/ CloseIssueFaulted
    \/ AddDependencyFaulted
    \/ RemoveDependencyFaulted

SpecIO == Init /\ [][IONext]_vars

\* The call of this step raised a ValueError of the manager.
RejectedStep ==
    /\ rejections' = rejections + 1
    /\ last'.result \in {"ValidationError", "NotFoundError", "CycleError"}

\* A call refused by a check has assigned nothing: every check comes before
\* the first assignment to the index.
C21_ValidateBeforeMutate ==
    RejectedStep => /\ index' = index
                    /\ UNCHANGED <<store_issues, store_deps, events>>

\* An event is appended together with the snapshot of its mutation: after
\* the step the collection the event is about is the index's, line for line.
C21_EventAfterSnapshot ==
    events' # events =>
        /\ Len(events') = Len(events) + 1
        /\ SubSeq(events', 1, Len(events)) = events
        /\ IF events'[Len(events')].event_type \in {"created", "updated", "closed"}
           THEN store_issues' = save_issues(index'.issues)
           ELSE store_deps' = save_dependencies(get_all_dependencies(index'))

\* A failed rewrite: the caller has the error, the index has the mutation,
\* the log has no new event.
C21_FailedSaveKeepsMutation ==
    (rejections' = rejections + 1 /\ last'.result = "OSError in save") =>
        /\ index' # index
        /\ events' = events

\* C21: every mutating operation validates, then mutates the index, then
\* rewrites the collection, then appends the event: a refused call has
\* changed nothing, an event is in the log only with the snapshot of its
\* mutation written, and a failed rewrite raises, keeps the mutation in the
\* index and appends no event.
C21_ValidateMutatePersistEmit ==
    [][/\ C21_ValidateBeforeMutate
       /\ C21_EventAfterSnapshot
       /\ C21_FailedSaveKeepsMutation]_vars

\* The part of C21 after the validation: the order of rewrite and event, and
\* the outcome of a failed rewrite.
C21_PersistBeforeEmit ==
    [][C21_EventAfterSnapshot /\ C21_FailedSaveKeepsMutation]_vars

\* A rewrite failed half way: the index is ahead of the file, which holds one
\* of two issues, and the log has only the first issue's event.
C21_IndexAheadOfStore ==
    /\ last.result = "OSError in save"
    /\ last.op = "create_issue"
    /\ Len(index.issues) = 2
    /\ Len(store_issues) = 1
    /\ Len(events) = 1


\* ------------------------------------------- one JSONL file, step by step
\* _read_jsonl, _write_jsonl and _append_jsonl on one file, a line of the
\* file being one element of io.file.  io.pc is the place of the call: "try"
\* before open(), "writing" inside the with block, "handler" in the except
\* clause, "returned" or "raised" when the call is over.  Delays are counted
\* in tenths of a second.
MaxCalls == 2
max_retries == 3
retry_delay == 1
EIO == 5
\* The errno of a failure: EIO, or one that is not retried (EACCES).
ErrnoInputs == {EIO, 13}
CallInputs == {"read", "write", "append"}
DataInputs == {<<>>, <<"l1">>, <<"l2", "l3">>}

\* The lines the call has to put into the file.
ToWrite(call, data) == IF call = "append" THEN <<"ev">> ELSE data

\* A method of Storage is called: the locals of the retry loop are set.
StartCall ==
    \E call \in CallInputs, data \in DataInputs :
        /\ io.pc \in {"idle", "returned", "raised"}
        /\ io.calls < MaxCalls
        /\ call # "write" => data = <<>>
        /\ io' = [io EXCEPT !.call = call, !.pc = "try", !.attempt = 0,
                            !.retry_delay = retry_delay, !.slept = <<>>,
                            !.warned = FALSE, !.errno = 0, !.before = io.file,
                            !.data = data, !.written = 0, !.result = <<>>,
                            !.calls = @ + 1]
        /\ UNCHANGED <<index, store_issues, store_deps, events, clock, last,
                       rejections, shared, other, worker>>

\* open() succeeds: mode "w" empties the file, mode "a" keeps it, and a read
\* returns the lines at once.
OpenFile ==
    /\ io.pc = "try"
    /\ io' = IF io.call = "read"
             THEN [io EXCEPT !.pc = "returned", !.result = io.file]
             ELSE [io EXCEPT !.pc = "writing", !.written = 0,
                             !.file = IF io.call = "write" THEN <<>> ELSE @]
    /\ UNCHANGED <<index, store_issues, store_deps, events, clock, last,
                   rejections, shared, other, worker>>

\* f.write of the next line.
WriteLine ==
    /\ io.pc = "writing"
    /\ io.written < Len(ToWrite(io.call, io.data))
    /\ io' = [io EXCEPT !.file = Append(@, ToWrite(io.call, io.data)[io.written + 1]),
                        !.written = @ + 1]
    /\ UNCHANGED <<index, store_issues, store_deps, events, clock, last,
                   rejections, shared, other, worker>>

\* f.flush(), the end of the with block, return.
FlushAndReturn ==
    /\ io.pc = "writing"
    /\ io.written = Len(ToWrite(io.call, io.data))
    /\ io' = [io EXCEPT !.pc = "returned"]
    /\ UNCHANGED <<index, store_issues, store_deps, events, clock, last,
                   rejections, shared, other, worker>>

\* open(), the reading, a write or the flush raises OSError: what is in the
\* file stays there.
RaiseOSError ==
    \E e \in ErrnoInputs :
        /\ io.pc \in {"try", "writing"}
        /\ io' = [io EXCEPT !.pc = "handler", !.errno = e]
        /\ UNCHANGED <<index, store_issues, store_deps, events, clock, last,
                       rejections, shared, other, worker>>

\* if e.errno == 5 and attempt < max_retries - 1
ShouldRetry(errno, attempt) == errno = EIO /\ attempt < max_retries - 1

\* The except clause: warn on the first attempt, sleep, double the delay and
\* go round the loop again, or re-raise.
ExceptOSError ==
    /\ io.pc = "handler"
    /\ io' = IF ShouldRetry(io.errno, io.attempt)
             THEN [io EXCEPT !.warned = @ \/ io.attempt = 0,
                             !.slept = Append(@, io.retry_delay),
                             !.retry_delay = @ * 2,
                             !.attempt = @ + 1,
                             !.pc = "try"]
             ELSE [io EXCEPT !.pc = "raised"]
    /\ UNCHANGED <<index, store_issues, store_deps, events, clock, last,
                   rejections, shared, other, worker>>

\* The steps of a call under way.
StorageStep == OpenFile \/ WriteLine \/ FlushAndReturn \/ RaiseOSError \/ ExceptOSError

StorageNext ==
    \/ StartCall
    \/ OpenFile
    \/ WriteLine
    \/ FlushAndReturn
    \/ RaiseOSError
    \/ ExceptOSError

\* The interpreter runs a call that has started on to its end.
SpecStorage == Init /\ [][StorageNext]_vars /\ WF_vars(StorageStep)

\* C22: while save_issues / save_dependencies rewrites the file, and when it
\* has ended either way, the file holds the complete previous snapshot or
\* the complete new one.
C22_RewriteAtomic ==
    io.call = "write" => io.file \in {io.before, io.data}

\* A rewrite of a file that had a line has just opened it: a reader, or a
\* restart after a crash here, finds no line at all.
C22_EmptyDuringRewrite ==
    /\ io.call = "write"
    /\ io.pc = "writing"
    /\ io.before = <<"l1">>
    /\ io.data = <<"l2", "l3">>
    /\ io.file = <<>>


\* The call is over.
CallEnded == io.pc \in {"returned", "raised"}

\* The delays slept so far start at retry_delay and double.
RECURSIVE Doubling(_, _)
Doubling(first, n) == IF n = 0 THEN <<>> ELSE <<first>> \o Doubling(2 * first, n - 1)

\* What C23 says of every step, the count of retries apart: the delays
\* double from 0.1 s, an errno other than 5 is re-raised with no sleep, and
\* a call that has returned or raised takes no further step.
C23_LoopStep ==
    /\ io'.slept = Doubling(retry_delay, Len(io'.slept))
    /\ (io.pc = "handler" /\ io.errno # EIO) =>
           (io'.pc = "raised" /\ io'.slept = io.slept)
    /\ (io.pc = "handler" /\ io.errno = EIO /\ io'.pc = "try") =>
           (io'.slept = Append(io.slept, io.retry_delay) /\ io'.attempt = io.attempt + 1)
    /\ CallEnded => (io'.pc = "try" /\ io'.calls = io.calls + 1 /\ io'.file = io.file)

\* C23: an errno-5 failure is retried up to 3 times, the delay doubling from
\* 0.1 s, and raised once the 3 retries are used up; any other errno is
\* raised at once; a success ends the loop at once; the loop terminates.
C23_RetriedThreeTimes ==
    /\ [](Len(io.slept) <= max_retries)
    /\ []((io.pc = "raised" /\ io.errno = EIO) => Len(io.slept) = max_retries)
    /\ [][C23_LoopStep]_vars
    /\ (io.pc = "try") ~> CallEnded

\* The same with the retries counted as the loop makes them: max_retries
\* attempts, so max_retries - 1 retries.
C23_ThreeAttempts ==
    /\ [](Len(io.slept) <= max_retries - 1)
    /\ [](io.attempt = Len(io.slept) /\ io.warned = (Len(io.slept) > 0))
    /\ []((io.pc = "raised" /\ io.errno = EIO) => Len(io.slept) = max_retries - 1)
    /\ [][C23_LoopStep]_vars
    /\ (io.pc = "try") ~> CallEnded

\* Every attempt of a read failed with errno 5: the call has raised after
\* two sleeps, of 0.1 s and 0.2 s.
C23_RaisedAfterTwoRetries ==
    /\ io.call = "read"
    /\ io.pc = "raised"
    /\ io.errno = EIO
    /\ io.attempt = 2
    /\ io.slept = <<1, 2>>

====
